---------------------------- MODULE Spec2Model ----------------------------
(***************************************************************************)
(* SDRdaemon stream framing: the sender side packetizer (UDPSink::write)   *)
(* and the receiver side reassembler (SDRdaemonBuffer::writeAndRead),      *)
(* joined by an order preserving datagram channel that may lose datagrams, *)
(* the configuration of the sample source (AirspyHFSource::configure) and  *)
(* its streaming thread (AirspyHFSource::start, run, stop).                *)
(*                                                                         *)
(* Memory is modelled at byte level: a buffer is a sequence of bytes       *)
(* (0..255), a header is the 42 byte packed MetaData record laid over the  *)
(* first bytes of a datagram, multi-byte fields are little endian.         *)
(*                                                                         *)
(* The body of SDRdaemonBuffer (SDRdaemonBuffer.cpp), CRC64 and UDPSink.h  *)
(* are not part of the sources at hand: the reassembler, the checksum and  *)
(* the sample-width setter are modelled from the protocol description.     *)
(* An I/Q sample is taken to occupy 2 * (m_sampleBytes & 0xF) bytes in     *)
(* memory, as the description of the payload layout states.                *)
(***************************************************************************)
EXTENDS Integers, Sequences, FiniteSets, TLC

VARIABLES
    \* ---- UDPSink (sender) ----
    m_udpSize,          \* datagram size given to the constructor
    m_sampleBytes,      \* uint8: low nibble bytes per component
    m_nbSamples,        \* frame size remembered from the previous write
    m_lz4MinInputSize,
    m_lz4BufSize,
    m_lz4Buffer,        \* 0: null pointer, k > 0: the k-th buffer allocated
    heap,               \* history: "live" | "freed" | "freed_twice" per buffer
    m_currentMeta,      \* last header that differed (bytes)
    m_bufMeta,          \* header staging buffer, m_udpSize bytes
    m_buf,              \* remainder staging buffer, m_udpSize bytes
    \* ---- environment ----
    junk,               \* value read from memory that was never written
    lens,               \* frame lengths the sample source may hand to write
    chan,               \* datagrams in flight, in emission order
    calls,              \* history: one record per write call
    pristine,           \* history: no datagram was lost so far
    log,                \* history: every datagram that left the channel or
                        \* was handed to accept, with what became of it
    fault,              \* "none" | "tx_div0" | "tx_double_free" | "rx_oob"
                        \* | "rx_crash"
    \* ---- SDRdaemonBuffer (receiver) ----
    rx_blockSize,       \* datagram size given to the constructor
    rx_sync,            \* FALSE: AWAITING_HEADER, TRUE: COLLECTING
    rx_currentMeta,     \* header in force (bytes)
    rx_blocksRemaining,
    rx_nextOffset,      \* byte offset of the next copy
    rx_buf,             \* reconstruction buffer
    rx_in,              \* history: argument of the last accept call
    rx_ret,             \* history: result of the last accept call
    rx_prev,            \* history: receiver state before the last accept call
    rx_calls,           \* history: number of accept calls
    delivered,          \* history: completed frames, in order
    \* ---- AirspyHFSource (sample source) ----
    m_sampleRate,       \* what get_sample_rate returns
    m_frequency,        \* what get_frequency returns
    m_confFreq,         \* configured center frequency
    m_error,            \* last error message
    dev_samplerate,     \* the device: sample rate applied by the library
    dev_freq,           \* the device: frequency applied by the library
    cfg_in,             \* history: argument of the last configure call
    cfg_ret,            \* history: result of the last configure call
    cfg_prev,           \* history: the source before the last configure call
    m_running,
    m_thread,           \* 0: null pointer, k > 0: the k-th thread created
    threads,            \* one record per std::thread object ever created
    stop_flag,          \* the std::atomic_bool shared with the caller
    dev_streaming,      \* the device: what airspyhf_is_streaming returns
    src_call,           \* the caller of start and stop: where it stands,
                        \* and the history of its last call
    src_fault,          \* "none" | "null_deref" | "use_after_free"
    m_this,             \* the static current-instance pointer: 0 null,
                        \* i > 0 the i-th source constructed
    insts,              \* one record per source instance ever constructed
    cb,                 \* the hardware callback in progress, if any
    pushes              \* history: what became of each hardware callback

txvars == <<m_udpSize, m_sampleBytes, m_nbSamples, m_lz4MinInputSize,
            m_lz4BufSize, m_lz4Buffer, heap, m_currentMeta, m_bufMeta, m_buf>>
devvars == <<m_sampleRate, m_frequency, m_confFreq, m_error, dev_samplerate,
             dev_freq, cfg_in, cfg_ret, cfg_prev>>
srcvars == <<m_running, m_thread, threads, stop_flag, dev_streaming, src_call,
             src_fault>>
instvars == <<m_this, insts, cb, pushes>>
envvars == <<junk, lens>>
rxstate == <<rx_blockSize, rx_sync, rx_currentMeta, rx_blocksRemaining,
             rx_nextOffset, rx_buf>>
rxvars == <<rx_blockSize, rx_sync, rx_currentMeta, rx_blocksRemaining,
            rx_nextOffset, rx_buf, rx_in, rx_ret, rx_prev, rx_calls, delivered>>
vars == <<m_udpSize, m_sampleBytes, m_nbSamples, m_lz4MinInputSize,
          m_lz4BufSize, m_lz4Buffer, heap, m_currentMeta, m_bufMeta, m_buf,
          junk, lens, chan, calls, pristine, log, fault,
          rx_blockSize, rx_sync, rx_currentMeta, rx_blocksRemaining,
          rx_nextOffset, rx_buf, rx_in, rx_ret, rx_prev, rx_calls, delivered,
          m_sampleRate, m_frequency, m_confFreq, m_error, dev_samplerate,
          dev_freq, cfg_in, cfg_ret, cfg_prev,
          m_running, m_thread, threads, stop_flag, dev_streaming, src_call,
          src_fault, m_this, insts, cb, pushes>>

---------------------------------------------------------------------------
(* Bounds of the model *)

\* write calls per behaviour
MaxWrites == 2
\* the small frame lengths are q * LenUnit + r, q in 0..MaxBlocks
MaxBlocks == 2
LenUnit == 11
LenRest == 5
\* accept calls per behaviour when the receiver is driven directly
MaxAccepts == 4
MaxThreads == 2
MaxInstances == 2
MaxCallbacks == 2

---------------------------------------------------------------------------
(* Bytes and the packed header record *)

\* uint16_t holds values modulo U16.  Every number of the model stays below
\* 2^31, so the upper bytes of a 64 bit field are 0 unless bytes are laid
\* over it, and wider fields are compared byte by byte.
U16 == 65536

\* sizeof(MetaData), packed
MetaSize == 42

Pow256(w) == IF w = 0 THEN 1 ELSE IF w = 1 THEN 256 ELSE IF w = 2 THEN 65536
             ELSE 16777216

\* byte i (0-based) of the little endian image of v, 0 <= v < 2^31
ByteOf(v, i) == IF i < 4 THEN (v \div Pow256(i)) % 256 ELSE 0

LE(v, w) == [i \in 1..w |-> ByteOf(v, i - 1)]
Slice(buf, off, w) == [i \in 1..w |-> buf[off + i]]

\* the w byte unsigned field at byte offset off (0-based) of buf
RECURSIVE GetLE(_, _, _)
GetLE(buf, off, w) ==
    IF w = 0 THEN 0 ELSE buf[off + 1] + 256 * GetLE(buf, off + 1, w - 1)

\* buf with the w byte field at offset off set to v (stored modulo 2^(8w))
PutLE(buf, off, w, v) ==
    [j \in 1..Len(buf) |->
        IF j > off /\ j <= off + w THEN ByteOf(v, j - off - 1) ELSE buf[j]]

\* offsets of the fields of MetaData
OffCenterFrequency == 0
OffSampleRate == 8
OffSampleBytes == 12
OffSampleBits == 13
OffBlockSize == 14
OffNbSamples == 16
OffNbBlocks == 20
OffRemainderSamples == 22
OffNbCompleteBlocks == 24
OffTvSec == 26
OffTvUsec == 30
OffCrc == 34

F_sampleRate(b) == GetLE(b, OffSampleRate, 4)
F_sampleBytes(b) == GetLE(b, OffSampleBytes, 1)
F_sampleBits(b) == GetLE(b, OffSampleBits, 1)
F_blockSize(b) == GetLE(b, OffBlockSize, 2)
F_nbSamples(b) == GetLE(b, OffNbSamples, 4)
F_nbBlocks(b) == GetLE(b, OffNbBlocks, 2)
F_remainderSamples(b) == GetLE(b, OffRemainderSamples, 2)
F_nbCompleteBlocks(b) == GetLE(b, OffNbCompleteBlocks, 2)
F_tv_sec(b) == GetLE(b, OffTvSec, 4)
F_tv_usec(b) == GetLE(b, OffTvUsec, 4)
F_crc(b) == Slice(b, OffCrc, 8)

\* 64 bit checksum of the first n bytes of buf: never 0, position dependent
CrcMod == 65521
RECURSIVE CrcSum(_, _)
CrcSum(buf, n) == IF n = 0 THEN 0 ELSE (CrcSum(buf, n - 1) + n * buf[n]) % CrcMod
calculate_crc(buf, n) == 1 + CrcSum(buf, n)

\* the receiver's test: the datagram, read as a header record, carries the
\* checksum of its own leading bytes
ValidHeader(bytes) ==
    /\ Len(bytes) >= MetaSize
    /\ LE(calculate_crc(bytes, MetaSize - 8), 8) = F_crc(bytes)

Fill(n, v) == [j \in 1..n |-> v]
Head42(bytes) == [j \in 1..MetaSize |-> bytes[j]]


---------------------------------------------------------------------------
(* The sample source: a batch is n samples whose bytes are all distinct   *)
(* from junk and differ from position to position.                        *)

SamplePeriod == 251
NoFrame == <<"none">>

\* sizeof(IQSample) for the configured sample width
SampleSize(sb) == 2 * (sb % 16)

\* byte k (0-based) of the memory at &samples_in[0]; past the end of the
\* vector the read is out of bounds and yields whatever lies there
SampleMem(batch, ss, k, j0) ==
    IF k < batch.n * ss THEN 1 + ((batch.seed + k) % SamplePeriod) ELSE j0

BatchBytes(batch, ss) == [k \in 1..(batch.n * ss) |-> SampleMem(batch, ss, k - 1, 0)]

---------------------------------------------------------------------------
(* UDPSink *)

\* constructor defaults
CenterFrequency == 100000000
SampleRate == 48000
SampleBits == 8

\* LZ4_COMPRESSBOUND of lz4.h
LZ4_compressBound(n) == n + (n \div 255) + 16

\* UDPSink.cpp:57, a uint16_t local
samplesPerBlock(udp, sb) == (udp \div (2 * sb)) % U16

\* UDPSink.cpp:67
NbBlocksWritten(n, spb) == 1

\* UDPSink.cpp:61-71: the fields laid into the staging buffer, in order
MetaFields(buf, udp, sb, n, spb, sec, usec) ==
    LET b1 == PutLE(buf, OffCenterFrequency, 8, CenterFrequency)
        b2 == PutLE(b1, OffSampleRate, 4, SampleRate)
        b3 == PutLE(b2, OffSampleBytes, 1, sb)
        b4 == PutLE(b3, OffSampleBits, 1, SampleBits)
        b5 == PutLE(b4, OffBlockSize, 2, udp)
        b6 == PutLE(b5, OffNbSamples, 4, n)
        b7 == PutLE(b6, OffNbBlocks, 2, NbBlocksWritten(n, spb))
        b8 == PutLE(b7, OffRemainderSamples, 2, n % spb)
        b9 == PutLE(b8, OffNbCompleteBlocks, 2, n \div spb)
        b10 == PutLE(b9, OffTvSec, 4, sec)
    IN  PutLE(b10, OffTvUsec, 4, usec)

\* a header whose checksum is taken before the timestamp is stored
StaleCrcMeta(buf, udp, sb, n, spb, sec, usec) ==
    LET early == MetaFields(buf, udp, sb, n, spb, F_tv_sec(buf), F_tv_usec(buf))
        crc == calculate_crc(early, MetaSize - 8)
    IN  PutLE(MetaFields(buf, udp, sb, n, spb, sec, usec), OffCrc, 8, crc)

\* UDPSink.cpp:61-72: the staging buffer after the header is built
WriteMeta(buf, udp, sb, n, spb, sec, usec) ==
    LET fields == MetaFields(buf, udp, sb, n, spb, sec, usec)
    IN  PutLE(fields, OffCrc, 8, calculate_crc(fields, MetaSize - 8))

\* operator== of the header record: the critical data
MetaEqual(a, b) == Slice(a, 0, OffNbBlocks) = Slice(b, 0, OffNbBlocks)

\* a remainder datagram cut to the bytes it carries
ShortRemainderLen(src, udp, used) == IF src = "m_buf" THEN used ELSE udp

\* the size argument of SendDataGram, UDPSink.cpp:113,117,123
SendLen(src, udp, used) == udp

\* UDPSink.cpp:117: the i-th complete block (0-based), sent from the vector
BlockDatagram(batch, ss, udp, spb, i, j0) ==
    [bytes |-> [j \in 1..udp |-> SampleMem(batch, ss, i * spb * ss + j - 1, j0)],
     len |-> SendLen("samples_in", udp, spb * ss),
     src |-> "samples_in"]

\* UDPSink.cpp:122: m_buf after the memcpy of the remainder
RemainderBuf(buf, batch, ss, meta, spb, j0) ==
    LET used == 2 * F_remainderSamples(meta) * (F_sampleBytes(meta) % 16)
        from == F_nbCompleteBlocks(meta) * spb * ss
    IN  [j \in 1..Len(buf) |->
            IF j <= used THEN SampleMem(batch, ss, from + j - 1, j0) ELSE buf[j]]

\* the header sent after the complete blocks
HeaderAfterBlocks(hdr, blocks, rest) == blocks \o <<hdr>> \o rest

\* UDPSink.cpp:113-124: the order of the SendDataGram calls
SendOrder(hdr, blocks, rest) == <<hdr>> \o blocks \o rest

\* UDPSink.cpp:115: the bound of the loop over the complete blocks
LoopCount(meta) == F_nbCompleteBlocks(meta)

\* UDPSink.cpp:113-124: the datagrams one write hands to the socket
Emitted(meta, buf2, batch, ss, udp, spb, j0) ==
    LET hdr == [bytes |-> meta, len |-> SendLen("m_bufMeta", udp, MetaSize),
                src |-> "m_bufMeta"]
        blocks == [i \in 1..LoopCount(meta) |->
                      BlockDatagram(batch, ss, udp, spb, i - 1, j0)]
        used == 2 * F_remainderSamples(meta) * (F_sampleBytes(meta) % 16)
        rest == IF F_remainderSamples(meta) > 0
                THEN <<[bytes |-> buf2, len |-> SendLen("m_buf", udp, used),
                        src |-> "m_buf"]>>
                ELSE <<>>
    IN  SendOrder(hdr, blocks, rest)

\* delete[] p: a null pointer is left alone, a live buffer is released, a
\* buffer released before is released again
Delete(h, p) ==
    IF p = 0 THEN h
    ELSE [h EXCEPT ![p] = IF @ = "live" THEN "freed" ELSE "freed_twice"]

\* delete[] of a pointer whose buffer was released already
DoubleFree(h, p) == p # 0 /\ h[p] # "live"

\* the buffer is allocated afresh on every call while compression is on
ResizeAlways(metaNb, nb, minIn) == minIn > 0

\* UDPSink.cpp:74,78: the conditions under which write re-sizes m_lz4Buffer
ResizeNeeded(metaNb, nb, minIn) == metaNb # nb /\ minIn > 0

\* UDPSink::write
write(n, seed, sec, usec) ==
    /\ fault = "none"
    /\ Len(calls) < MaxWrites
    /\ LET batch == [n |-> n, seed |-> seed]
           ss == SampleSize(m_sampleBytes)
           spb == samplesPerBlock(m_udpSize, m_sampleBytes)
       IN IF spb = 0
          THEN \* n % 0 at UDPSink.cpp:68
               /\ fault' = "tx_div0"
               /\ UNCHANGED <<txvars, envvars, chan, calls, pristine, log,
                              rxvars, devvars, srcvars, instvars>>
          ELSE
            LET meta == WriteMeta(m_bufMeta, m_udpSize, m_sampleBytes, n, spb, sec, usec)
                bytesPerFrame == F_nbSamples(meta) * 2 * m_sampleBytes
                resize == ResizeNeeded(F_nbSamples(meta), m_nbSamples,
                                       m_lz4MinInputSize)
                size2 == IF resize
                         THEN LZ4_compressBound(
                                ((m_lz4MinInputSize \div bytesPerFrame) + 1) * bytesPerFrame)
                         ELSE m_lz4BufSize
                heap2 == IF resize THEN Append(Delete(heap, m_lz4Buffer), "live")
                         ELSE heap
                lz4Buffer2 == IF resize THEN Len(heap2) ELSE m_lz4Buffer
                buf2 == IF F_remainderSamples(meta) > 0
                        THEN RemainderBuf(m_buf, batch, ss, meta, spb, junk)
                        ELSE m_buf
                out == Emitted(meta, buf2, batch, ss, m_udpSize, spb, junk)
            IN IF resize /\ bytesPerFrame = 0
               THEN \* m_lz4MinInputSize / 0 at UDPSink.cpp:80
                    /\ fault' = "tx_div0"
                    /\ m_bufMeta' = meta
                    /\ UNCHANGED <<m_udpSize, m_sampleBytes, m_nbSamples,
                                   m_lz4MinInputSize, m_lz4BufSize, m_lz4Buffer,
                                   heap, m_currentMeta, m_buf, envvars, chan,
                                   calls, pristine, log, rxvars, devvars, srcvars, instvars>>
               ELSE
                 \/ /\ resize /\ DoubleFree(heap, m_lz4Buffer)
                    \* UDPSink.cpp:82 releases a released buffer: the
                    \* allocator aborts the process
                    /\ fault' = "tx_double_free"
                    /\ m_bufMeta' = meta
                    /\ m_lz4BufSize' = size2
                    /\ UNCHANGED <<m_udpSize, m_sampleBytes, m_nbSamples,
                                   m_lz4MinInputSize, m_lz4Buffer, heap,
                                   m_currentMeta, m_buf, envvars, chan, calls,
                                   pristine, log, rxvars, devvars, srcvars, instvars>>
                 \/ \* ... or the call goes on
                    /\ m_bufMeta' = meta
                    /\ m_buf' = buf2
                    /\ m_nbSamples' = F_nbSamples(meta)
                    /\ m_lz4BufSize' = size2
                    /\ heap' = heap2
                    /\ m_lz4Buffer' = lz4Buffer2
                    /\ m_currentMeta' = IF MetaEqual(meta, m_currentMeta)
                                        THEN m_currentMeta ELSE Head42(meta)
                    /\ chan' = chan \o out
                    /\ calls' = Append(calls,
                          [batch |-> batch, ss |-> ss, udp |-> m_udpSize,
                           sb |-> m_sampleBytes, out |-> out,
                           nb0 |-> m_nbSamples,
                           lz0 |-> [buf |-> m_lz4Buffer, size |-> m_lz4BufSize],
                           nb1 |-> F_nbSamples(meta),
                           lz1 |-> [buf |-> lz4Buffer2, size |-> size2]])
                    /\ UNCHANGED <<m_udpSize, m_sampleBytes, m_lz4MinInputSize,
                                   envvars, pristine, log, fault, rxvars,
                                   devvars, srcvars, instvars>>

\* UDPSink::setSampleBytes
setSampleBytes(b) ==
    /\ fault = "none"
    /\ b # m_sampleBytes
    /\ m_sampleBytes' = b
    /\ UNCHANGED <<m_udpSize, m_nbSamples, m_lz4MinInputSize, m_lz4BufSize,
                   m_lz4Buffer, heap, m_currentMeta, m_bufMeta, m_buf, envvars,
                   chan, calls, pristine, log, fault, rxvars, devvars, srcvars, instvars>>

\* UDPSink::setLZ4MinInputSize
setLZ4MinInputSize(lz4MinInputSize) ==
    /\ fault = "none"
    /\ LET release == lz4MinInputSize = 0 /\ m_lz4Buffer # 0
       IN  \/ /\ release /\ DoubleFree(heap, m_lz4Buffer)
              \* UDPSink.cpp:132 releases a released buffer: the allocator
              \* aborts the process
              /\ fault' = "tx_double_free"
              /\ UNCHANGED <<m_lz4MinInputSize, m_lz4BufSize, heap>>
           \/ \* ... or the call goes on; the pointer keeps its value
              /\ heap' = IF release THEN Delete(heap, m_lz4Buffer) ELSE heap
              /\ m_lz4BufSize' = IF lz4MinInputSize = 0 THEN 0 ELSE m_lz4BufSize
              /\ m_lz4MinInputSize' = lz4MinInputSize
              /\ UNCHANGED fault
    /\ UNCHANGED <<m_udpSize, m_sampleBytes, m_nbSamples, m_lz4Buffer,
                   m_currentMeta, m_bufMeta, m_buf, envvars, chan, calls,
                   pristine, log, rxvars, devvars, srcvars, instvars>>

---------------------------------------------------------------------------
(* SDRdaemonBuffer: the reassembler *)

RxState == [sync |-> rx_sync, meta |-> rx_currentMeta,
            remaining |-> rx_blocksRemaining, offset |-> rx_nextOffset,
            buf |-> rx_buf]

BytesPerComponent(meta) == F_sampleBytes(meta) % 16
BytesPerSample(meta) == 2 * BytesPerComponent(meta)
RxSamplesPerBlock(meta) ==
    IF BytesPerSample(meta) = 0 THEN 0
    ELSE F_blockSize(meta) \div BytesPerSample(meta)

\* size of the reconstruction buffer allocated for a header
FrameBytes(meta) == F_nbSamples(meta) * BytesPerSample(meta)

\* bytes one payload datagram contributes when `remaining` blocks are awaited
CopyBytes(meta, remaining) ==
    (IF remaining = 1 /\ F_remainderSamples(meta) > 0
     THEN F_remainderSamples(meta)
     ELSE RxSamplesPerBlock(meta)) * BytesPerSample(meta)

\* the reconstruction buffer after the copy of nbytes bytes at offset
CopyInto(buf, offset, bytes, nbytes, j0) ==
    [j \in 1..Len(buf) |->
        IF j > offset /\ j <= offset + nbytes
        THEN (IF j - offset <= Len(bytes) THEN bytes[j - offset] ELSE j0)
        ELSE buf[j]]

\* a valid header keeps the blocks already collected
HeaderKeepsProgress(st, d, j0) ==
    [sync |-> TRUE, meta |-> Head42(d.bytes),
     remaining |-> IF st.sync THEN st.remaining ELSE F_nbBlocks(d.bytes),
     offset |-> IF st.sync THEN st.offset ELSE 0,
     buf |-> IF st.sync THEN st.buf ELSE Fill(FrameBytes(d.bytes), j0)]

\* step 2: a valid header is adopted, whatever the state
OnHeader(st, d, j0) ==
    [sync |-> TRUE, meta |-> Head42(d.bytes),
     remaining |-> F_nbBlocks(d.bytes), offset |-> 0,
     buf |-> Fill(FrameBytes(d.bytes), j0)]

\* a payload datagram before the first header starts a frame of its own
StrayStartsFrame(st, d) ==
    [sync |-> TRUE, meta |-> st.meta, remaining |-> 1, offset |-> 0,
     buf |-> st.buf]

\* step 3, AWAITING_HEADER: the datagram is discarded
OnStray(st, d) == st

\* a payload datagram that completes the frame but leaves the state COLLECTING
PayloadNeverIdle(st, d, j0) ==
    LET nbytes == CopyBytes(st.meta, st.remaining)
    IN  [sync |-> TRUE, meta |-> st.meta, remaining |-> st.remaining - 1,
         offset |-> st.offset + nbytes,
         buf |-> CopyInto(st.buf, st.offset, d.bytes, nbytes, j0)]

\* a payload datagram that completes the frame one block early
PayloadCompletesEarly(st, d, j0) ==
    LET nbytes == CopyBytes(st.meta, st.remaining)
        buf2 == CopyInto(st.buf, st.offset, d.bytes, nbytes, j0)
    IN  IF st.remaining - 1 <= 1
        THEN [sync |-> FALSE, meta |-> st.meta, remaining |-> 0, offset |-> 0,
              buf |-> buf2]
        ELSE [sync |-> TRUE, meta |-> st.meta, remaining |-> st.remaining - 1,
              offset |-> st.offset + nbytes, buf |-> buf2]

\* step 3, COLLECTING: copy, advance, count down; the frame is complete when
\* the count reaches zero
OnPayload(st, d, j0) ==
    LET nbytes == CopyBytes(st.meta, st.remaining)
        buf2 == CopyInto(st.buf, st.offset, d.bytes, nbytes, j0)
    IN  IF st.remaining - 1 = 0
        THEN [sync |-> FALSE, meta |-> st.meta, remaining |-> 0, offset |-> 0,
              buf |-> buf2]
        ELSE [sync |-> TRUE, meta |-> st.meta, remaining |-> st.remaining - 1,
              offset |-> st.offset + nbytes, buf |-> buf2]

\* the frame is handed out again by every payload datagram that finds or
\* leaves the reassembler idle
CompletedAgain(st, st2) == IF ~st2.sync THEN st2.buf ELSE NoFrame

\* the frame handed out by a call that went from st to st2 on a payload datagram
Completed(st, st2) == IF st.sync /\ ~st2.sync THEN st2.buf ELSE NoFrame

\* a datagram of any length is interpreted
AnyLength(length, blockSize) == TRUE

\* the length test ahead of any interpretation of the datagram
SizeOk(length, blockSize) == length = blockSize

\* SDRdaemonBuffer::writeAndRead: the state after one datagram, the frame
\* handed out, and whether the copy ran past the reconstruction buffer
writeAndRead(st, d, blockSize, j0) ==
    LET isHeader == SizeOk(d.len, blockSize) /\ ValidHeader(d.bytes)
        isPayload == SizeOk(d.len, blockSize) /\ ~ValidHeader(d.bytes)
        st2 == IF isHeader THEN OnHeader(st, d, j0)
               ELSE IF ~isPayload THEN st
               ELSE IF st.sync THEN OnPayload(st, d, j0)
               ELSE OnStray(st, d)
    IN  [st |-> st2,
         ret |-> IF isPayload THEN Completed(st, st2) ELSE NoFrame,
         oob |-> /\ isPayload
                 /\ st.sync
                 /\ st.offset + CopyBytes(st.meta, st.remaining) > Len(st.buf)]

\* one call of writeAndRead by the receiving thread
accept(d) ==
    /\ fault \notin {"tx_div0", "tx_double_free", "rx_crash"}
    /\ LET st == RxState
           r == writeAndRead(st, d, rx_blockSize, junk)
       IN  /\ rx_in' = d
           /\ rx_prev' = st
           /\ rx_calls' = rx_calls + 1
           /\ UNCHANGED rx_blockSize
           /\ \/ /\ r.oob
                 \* the copy runs past the buffer: the process dies
                 /\ fault' = "rx_crash"
                 /\ rx_ret' = NoFrame
                 /\ log' = Append(log, [d |-> d, fate |-> "accepted",
                                        ret |-> NoFrame])
                 /\ UNCHANGED <<rx_sync, rx_currentMeta, rx_blocksRemaining,
                                rx_nextOffset, rx_buf, delivered>>
              \/ /\ rx_sync' = r.st.sync
                 /\ rx_currentMeta' = r.st.meta
                 /\ rx_blocksRemaining' = r.st.remaining
                 /\ rx_nextOffset' = r.st.offset
                 /\ rx_buf' = IF r.ret = NoFrame THEN r.st.buf ELSE <<>>
                 /\ rx_ret' = r.ret
                 /\ log' = Append(log, [d |-> d, fate |-> "accepted",
                                        ret |-> r.ret])
                 /\ delivered' = IF r.ret = NoFrame THEN delivered
                                  ELSE Append(delivered, r.ret)
                 \* ... or the heap is overwritten and the call goes on
                 /\ fault' = IF r.oob THEN "rx_oob" ELSE fault

---------------------------------------------------------------------------
(* The transport *)

\* the oldest datagram in flight reaches the receiver
Deliver ==
    /\ chan # <<>>
    /\ accept(Head(chan))
    /\ chan' = Tail(chan)
    /\ UNCHANGED <<txvars, envvars, calls, pristine, devvars, srcvars, instvars>>

\* the oldest datagram in flight is lost
Lose ==
    /\ chan # <<>>
    /\ fault \notin {"tx_div0", "tx_double_free", "rx_crash"}
    /\ chan' = Tail(chan)
    /\ pristine' = FALSE
    /\ log' = Append(log, [d |-> Head(chan), fate |-> "lost", ret |-> NoFrame])
    /\ UNCHANGED <<txvars, envvars, calls, fault, rxvars, devvars, srcvars, instvars>>

---------------------------------------------------------------------------
(* AirspyHFSource: the configuration of the sample source.  The device was *)
(* opened and reported its sample rates; strings are sequences of          *)
(* characters; the requests carry no sign, no blank and no ppm correction. *)

\* AirspyHFSource.cpp:37-38
DefaultSampleRate == 768000
DefaultFrequency == 10000000
\* AirspyHFSource.cpp:293
MinFrequency == 24000000
MaxFrequency == 1800000000

\* AirspyHFSource.cpp:81-99: the rates airspyhf_get_samplerates reported
m_srates == <<768000, 384000, 192000>>

Digits == <<"0", "1", "2", "3", "4", "5", "6", "7", "8", "9">>
IsDigit(c) == \E i \in 1..10 : Digits[i] = c
DigitVal(c) == (CHOOSE i \in 1..10 : Digits[i] = c) - 1

\* atoi: the value of the leading decimal digits, 0 if there are none
RECURSIVE atoiFrom(_, _)
atoiFrom(str, acc) ==
    IF str = <<>> \/ ~IsDigit(Head(str)) THEN acc
    ELSE atoiFrom(Tail(str), 10 * acc + DigitVal(Head(str)))
atoi(str) == atoiFrom(str, 0)

ToLower(c) ==
    CASE c = "L" -> "l" [] c = "I" -> "i" [] c = "S" -> "s" [] c = "T" -> "t"
      [] OTHER -> c

\* strcasecmp(a, b) == 0
SameNoCase(a, b) ==
    Len(a) = Len(b) /\ \A i \in 1..Len(a) : ToLower(a[i]) = ToLower(b[i])

\* AirspyHFSource.cpp:317-324: the index of the rate in m_srates (1-based),
\* Len(m_srates) + 1 where the loop runs to the end
RateIndex(rate) ==
    IF \E i \in 1..Len(m_srates) : m_srates[i] = rate
    THEN CHOOSE i \in 1..Len(m_srates) :
            m_srates[i] = rate /\ \A j \in 1..(i - 1) : m_srates[j] # rate
    ELSE Len(m_srates) + 1

DevState == [sampleRate |-> m_sampleRate, frequency |-> m_frequency,
             confFreq |-> m_confFreq, error |-> m_error,
             dev_samplerate |-> dev_samplerate, dev_freq |-> dev_freq]

\* AirspyHFSource::get_sample_rate
get_sample_rate == m_sampleRate

\* AirspyHFSource::configure(changeFlags, sampleRateIndex, frequency, ...);
\* rcFreq and rcRate tell whether airspyhf_set_freq and
\* airspyhf_set_samplerate succeed
configureFlags(st, changeFlags, sampleRateIndex, frequency, rcFreq, rcRate) ==
    LET setFreq == changeFlags % 2 = 1
        setRate == (changeFlags \div 2) % 2 = 1
        st1 == IF setFreq THEN [st EXCEPT !.frequency = frequency] ELSE st
    IN  IF setFreq /\ ~rcFreq
        THEN [st |-> [st1 EXCEPT !.error = "Could not set center frequency"],
              ret |-> FALSE]
        ELSE
          LET st2 == IF setFreq THEN [st1 EXCEPT !.dev_freq = frequency] ELSE st1
          IN  IF ~setRate THEN [st |-> st2, ret |-> TRUE]
              ELSE IF ~rcRate
              THEN [st |-> [st2 EXCEPT !.error = "Could not set center sample rate"],
                    ret |-> FALSE]
              ELSE [st |-> [st2 EXCEPT
                              !.dev_samplerate = m_srates[sampleRateIndex],
                              !.sampleRate = m_srates[sampleRateIndex]],
                    ret |-> TRUE]

\* AirspyHFSource::configure(parsekv::pairs_type& m)
configureKv(st, m, rcFreq, rcRate) ==
    LET hasFreq == "freq" \in DOMAIN m
        hasRate == "srate" \in DOMAIN m
        frequency == IF hasFreq THEN atoi(m["freq"]) ELSE st.confFreq
        flags1 == IF hasFreq THEN 1 ELSE 0
    IN  IF hasFreq /\ (frequency < MinFrequency \/ frequency > MaxFrequency)
        THEN [st |-> [st EXCEPT !.error = "Invalid frequency"], ret |-> FALSE]
        ELSE IF ~hasRate
        THEN configureFlags([st EXCEPT !.confFreq = frequency], flags1, 1,
                            frequency, rcFreq, rcRate)
        ELSE IF SameNoCase(m["srate"], <<"l", "i", "s", "t">>)
        THEN [st |-> [st EXCEPT !.error = "Available sample rates (Hz)"],
              ret |-> FALSE]
        ELSE
          LET \* line 314: stored before it is looked up
              st1 == [st EXCEPT !.sampleRate = atoi(m["srate"])]
              i == RateIndex(st1.sampleRate)
          IN  IF i = Len(m_srates) + 1
              THEN [st |-> [st1 EXCEPT !.sampleRate = 0,
                                       !.error = "Invalid sample rate"],
                    ret |-> FALSE]
              ELSE configureFlags([st1 EXCEPT !.confFreq = frequency],
                                  flags1 + 2, i, frequency, rcFreq, rcRate)

\* one call of configure with the outcome of the device calls it makes
configure(m, rcFreq, rcRate) ==
    LET r == configureKv(DevState, m, rcFreq, rcRate)
    IN  /\ m_sampleRate' = r.st.sampleRate
        /\ m_frequency' = r.st.frequency
        /\ m_confFreq' = r.st.confFreq
        /\ m_error' = r.st.error
        /\ dev_samplerate' = r.st.dev_samplerate
        /\ dev_freq' = r.st.dev_freq
        /\ cfg_in' = m
        /\ cfg_ret' = r.ret
        /\ cfg_prev' = DevState
        /\ UNCHANGED <<txvars, envvars, chan, calls, pristine, log, fault,
                       rxvars, srcvars, instvars>>

\* AirspyHFSource.cpp:35-113: a source that has just been constructed
NewInstance == [state |-> "live", streaming |-> FALSE]

\* no hardware callback is in progress
NoCallback == [pc |-> "idle", dev |-> 0, seen |-> 0]

\* the caller has called neither start nor stop
NoCall == [op |-> "none", pc |-> "idle", ret |-> TRUE, before |-> 0,
           launched |-> FALSE, error |-> ""]

\* the state after AirspyHFSource::AirspyHFSource
Opened ==
    /\ m_sampleRate = DefaultSampleRate
    /\ m_frequency = DefaultFrequency
    /\ m_confFreq = 0
    /\ m_error = ""
    /\ dev_samplerate = DefaultSampleRate
    /\ dev_freq = DefaultFrequency
    /\ cfg_in = [none |-> <<>>]
    /\ cfg_ret = TRUE
    /\ cfg_prev = DevState
    /\ m_running = FALSE
    /\ m_thread = 0
    /\ threads = <<>>
    /\ stop_flag = FALSE
    /\ dev_streaming = FALSE
    /\ src_call = NoCall
    /\ src_fault = "none"
    /\ m_this = 1
    /\ insts = <<NewInstance>>
    /\ cb = NoCallback
    /\ pushes = <<>>

---------------------------------------------------------------------------
(* AirspyHFSource: the streaming thread.  start creates it, run is its     *)
(* body, stop joins and deletes it.  start and stop are called by one      *)
(* thread of control; start sleeps between the launch and its return, and  *)
(* stop blocks in join until the streaming thread has finished.            *)

\* what the streaming thread model leaves alone
framing == <<txvars, envvars, chan, calls, pristine, log, fault, rxvars,
             instvars>>
tuning == <<m_sampleRate, m_frequency, m_confFreq, dev_samplerate, dev_freq,
            cfg_in, cfg_ret, cfg_prev>>

\* AirspyHFSource.cpp:427
ThreadAlreadyStarted == "Source thread already started"

\* AirspyHFSource.cpp:420: a std::thread that is about to enter run
NewThread == [pc |-> "run", obj |-> "live", started |-> FALSE, stops |-> 0]

\* AirspyHFSource.h:58-61, operator bool: the device is open
IsOk(error) == error = ""

\* start launches a thread whether or not one was launched before
AlwaysStart(thread) == TRUE

\* AirspyHFSource.cpp:416
CanStart(thread) == thread = 0

\* the polling loop goes on until the device stops streaming
IgnoresFlag(flag, streaming) == streaming

\* AirspyHFSource.cpp:441
LoopGoesOn(flag, streaming) == ~flag /\ streaming

\* AirspyHFSource::start up to the sleep, or up to its return when a thread
\* was started before
start ==
    /\ src_fault = "none"
    /\ src_call.pc = "idle"
    /\ IF CanStart(m_thread)
       THEN /\ Len(threads) < MaxThreads
            /\ m_running' = TRUE
            /\ threads' = Append(threads, NewThread)
            /\ m_thread' = Len(threads) + 1
            /\ src_call' = [op |-> "start", pc |-> "sleeping", ret |-> FALSE,
                            before |-> m_thread, launched |-> TRUE,
                            error |-> m_error]
            /\ UNCHANGED m_error
       ELSE /\ m_error' = ThreadAlreadyStarted
            /\ src_call' = [op |-> "start", pc |-> "idle", ret |-> FALSE,
                            before |-> m_thread, launched |-> FALSE,
                            error |-> ThreadAlreadyStarted]
            /\ UNCHANGED <<m_running, m_thread, threads>>
    /\ UNCHANGED <<stop_flag, dev_streaming, src_fault, tuning, framing>>

\* AirspyHFSource::start after the sleep: return *this
start_return ==
    /\ src_fault = "none"
    /\ src_call.pc = "sleeping"
    /\ src_call' = [src_call EXCEPT !.pc = "idle", !.ret = IsOk(m_error),
                                    !.error = m_error]
    /\ UNCHANGED <<m_running, m_thread, threads, stop_flag, dev_streaming,
                   src_fault, devvars, framing>>

\* AirspyHFSource::stop up to the join
stop ==
    /\ src_fault = "none"
    /\ src_call.pc = "idle"
    /\ \/ /\ m_thread = 0
          \* AirspyHFSource.cpp:474 calls join through a null pointer
          /\ src_fault' = "null_deref"
          /\ src_call' = [op |-> "stop", pc |-> "crashed", ret |-> FALSE,
                          before |-> m_thread, launched |-> FALSE,
                          error |-> m_error]
          /\ UNCHANGED threads
       \/ /\ m_thread # 0
          /\ threads[m_thread].obj # "live"
          \* join and delete on a std::thread that was deleted: the process
          \* dies ...
          /\ src_fault' = "use_after_free"
          /\ src_call' = [op |-> "stop", pc |-> "crashed", ret |-> FALSE,
                          before |-> m_thread, launched |-> FALSE,
                          error |-> m_error]
          /\ UNCHANGED threads
       \/ /\ m_thread # 0
          /\ threads[m_thread].obj # "live"
          \* ... or the freed memory still reads as a finished thread and
          \* the call goes on to delete it again
          /\ threads' = [threads EXCEPT ![m_thread].obj = "deleted_twice"]
          /\ src_call' = [op |-> "stop", pc |-> "idle", ret |-> TRUE,
                          before |-> m_thread, launched |-> FALSE,
                          error |-> m_error]
          /\ UNCHANGED src_fault
       \/ /\ m_thread # 0
          /\ threads[m_thread].obj = "live"
          /\ src_call' = [op |-> "stop", pc |-> "joining", ret |-> FALSE,
                          before |-> m_thread, launched |-> FALSE,
                          error |-> m_error]
          /\ UNCHANGED <<threads, src_fault>>
    /\ UNCHANGED <<m_running, m_thread, stop_flag, dev_streaming, devvars,
                   framing>>

\* AirspyHFSource::stop once the streaming thread has finished: join returns,
\* the thread object is deleted, the pointer keeps its value
stop_return ==
    /\ src_fault = "none"
    /\ src_call.pc = "joining"
    /\ threads[m_thread].pc = "done"
    /\ threads' = [threads EXCEPT ![m_thread].obj = "deleted"]
    /\ src_call' = [src_call EXCEPT !.pc = "idle", !.ret = TRUE]
    /\ UNCHANGED <<m_running, m_thread, stop_flag, dev_streaming, src_fault,
                   devvars, framing>>

\* AirspyHFSource::run, the call of airspyhf_start with its outcome
run_start(k, rc) ==
    /\ src_fault = "none"
    /\ threads[k].pc = "run"
    /\ IF rc
       THEN /\ threads' = [threads EXCEPT ![k].pc = "loop",
                                          ![k].started = TRUE]
            /\ dev_streaming' = TRUE
       ELSE /\ threads' = [threads EXCEPT ![k].pc = "done"]
            /\ UNCHANGED dev_streaming
    /\ UNCHANGED <<m_running, m_thread, stop_flag, src_call, src_fault,
                   devvars, framing>>

\* AirspyHFSource::run, one turn of the polling loop that finds a control
\* message and applies it; a turn that finds none changes nothing
run_poll(k, m, rcFreq, rcRate) ==
    /\ src_fault = "none"
    /\ threads[k].pc = "loop"
    /\ LoopGoesOn(stop_flag, dev_streaming)
    /\ configure(m, rcFreq, rcRate)

\* AirspyHFSource::run, the end of the polling loop and the call of
\* airspyhf_stop with its outcome; a failure is logged and nothing else
run_exit(k, rc) ==
    /\ src_fault = "none"
    /\ threads[k].pc = "loop"
    /\ ~LoopGoesOn(stop_flag, dev_streaming)
    /\ threads' = [threads EXCEPT ![k].pc = "done",
                                  ![k].stops = threads[k].stops + 1]
    /\ dev_streaming' = IF rc THEN FALSE ELSE dev_streaming
    /\ UNCHANGED <<m_running, m_thread, stop_flag, src_call, src_fault,
                   devvars, framing>>

\* the owner of the stop flag sets it
set_stop_flag ==
    /\ src_fault = "none"
    /\ ~stop_flag
    /\ stop_flag' = TRUE
    /\ UNCHANGED <<m_running, m_thread, threads, dev_streaming, src_call,
                   src_fault, devvars, framing>>

\* the device stops streaming of its own
device_stops ==
    /\ src_fault = "none"
    /\ dev_streaming
    /\ dev_streaming' = FALSE
    /\ UNCHANGED <<m_running, m_thread, threads, stop_flag, src_call,
                   src_fault, devvars, framing>>

---------------------------------------------------------------------------
(* AirspyHFSource: the hardware callback and the static pointer m_this.    *)
(* Every source instance owns one device; the library calls rx_callback on *)
(* a thread of its own while the device streams, and airspyhf_close        *)
(* returns only when no callback of that device is in progress.            *)

\* what the callback model leaves alone
others == <<txvars, envvars, chan, calls, pristine, log, fault, rxvars,
            devvars, srcvars>>

\* the process died in a callback
CallbackCrashed ==
    \E j \in 1..Len(pushes) :
        pushes[j].kind \in {"null_deref", "use_after_destroy"}

\* what became of a callback of device dev that went through the pointer via
Outcome(dev, via, kind) ==
    [dev |-> dev, via |-> via, kind |-> kind,
     owner |-> insts[dev].state,
     target |-> IF via = 0 THEN "null" ELSE insts[via].state]

\* AirspyHFSource::AirspyHFSource: one more source in the process
construct ==
    /\ ~CallbackCrashed
    /\ Len(insts) < MaxInstances
    /\ insts' = Append(insts, NewInstance)
    /\ m_this' = Len(insts) + 1
    /\ UNCHANGED <<cb, pushes, others>>

\* AirspyHFSource::run, airspyhf_start: the device of source i streams
stream_on(i) ==
    /\ ~CallbackCrashed
    /\ insts[i].state = "live"
    /\ ~insts[i].streaming
    /\ insts' = [insts EXCEPT ![i].streaming = TRUE]
    /\ UNCHANGED <<m_this, cb, pushes, others>>

\* AirspyHFSource::~AirspyHFSource, airspyhf_close
destroy_close(i) ==
    /\ ~CallbackCrashed
    /\ insts[i].state = "live"
    /\ cb.dev # i
    /\ insts' = [insts EXCEPT ![i].state = "closing", ![i].streaming = FALSE]
    /\ UNCHANGED <<m_this, cb, pushes, others>>

\* AirspyHFSource::~AirspyHFSource, m_this = 0 and the end of the object
destroy_end(i) ==
    /\ ~CallbackCrashed
    /\ insts[i].state = "closing"
    /\ insts' = [insts EXCEPT ![i].state = "destroyed"]
    /\ m_this' = 0
    /\ UNCHANGED <<cb, pushes, others>>

\* AirspyHFSource::rx_callback for a transfer of device d, the test of m_this
rx_callback_test(d) ==
    /\ ~CallbackCrashed
    /\ cb.pc = "idle"
    /\ insts[d].streaming
    /\ Len(pushes) < MaxCallbacks
    /\ IF m_this = 0
       THEN /\ pushes' = Append(pushes, Outcome(d, 0, "dropped"))
            /\ UNCHANGED cb
       ELSE /\ cb' = [pc |-> "call", dev |-> d, seen |-> m_this]
            /\ UNCHANGED pushes
    /\ UNCHANGED <<m_this, insts, others>>

\* AirspyHFSource::rx_callback, m_this->callback(...) and the push into the
\* buffer of the source that the pointer names.  m_this is a plain static
\* that other threads write: the call uses the value the test saw or the
\* value the pointer holds now
rx_callback_call(via) ==
    /\ ~CallbackCrashed
    /\ cb.pc = "call"
    /\ via \in {cb.seen, m_this}
    /\ pushes' = Append(pushes,
                    Outcome(cb.dev, via,
                            IF via = 0 THEN "null_deref"
                            ELSE IF insts[via].state = "destroyed"
                            THEN "use_after_destroy"
                            ELSE "pushed"))
    /\ cb' = NoCallback
    /\ UNCHANGED <<m_this, insts, others>>

---------------------------------------------------------------------------
(* Inputs *)

JunkBytes == {0, 255}
SampleWidths == {1, 2}

\* the bytes of the k-th batch start at a different value for every batch
SeedStep == 100
\* gettimeofday at the k-th call
TvSec0 == 1446379200
TvUsec0 == 250000

\* short frames: no block, a partial block, whole blocks, blocks and a rest
FrameLens == {q * LenUnit + r : q \in 0..MaxBlocks, r \in {0, LenRest}}

\* frames of 2^16 blocks and more of 22 or 11 samples
HugeLens == {1441792, 1441797, 1441814}

\* datagram size and the frame lengths the source produces with it
Setups == {[udp |-> 44, lens |-> FrameLens],
           [udp |-> 46, lens |-> FrameLens],
           [udp |-> 1024, lens |-> {2000}]}
WideSetups == {[udp |-> 44, lens |-> FrameLens \cup HugeLens],
               [udp |-> 1024, lens |-> {0, 256, 2000}]}

Write == \E n \in lens :
            write(n, SeedStep * Len(calls), TvSec0 + Len(calls), TvUsec0)

\* the sample width is configured before streaming starts
SetSampleBytes == \E b \in SampleWidths : calls = <<>> /\ setSampleBytes(b)

\* the source hands over the next batch once the transport has drained
Source == chan = <<>> /\ Write

\* the state after the constructors of UDPSink, SDRdaemonBuffer and
\* AirspyHFSource
Constructed(udp, j0) ==
    /\ m_udpSize = udp
    /\ m_sampleBytes = 1
    /\ m_nbSamples = 0
    /\ m_lz4MinInputSize = 0
    /\ m_lz4BufSize = 0
    /\ m_lz4Buffer = 0
    /\ heap = <<>>
    /\ m_currentMeta = Fill(MetaSize, 0)
    /\ m_bufMeta = Fill(udp, j0)
    /\ m_buf = Fill(udp, j0)
    /\ junk = j0
    /\ chan = <<>>
    /\ calls = <<>>
    /\ pristine = TRUE
    /\ log = <<>>
    /\ fault = "none"
    /\ rx_blockSize = udp
    /\ rx_sync = FALSE
    /\ rx_currentMeta = Fill(MetaSize, 0)
    /\ rx_blocksRemaining = 0
    /\ rx_nextOffset = 0
    /\ rx_buf = <<>>
    /\ rx_in = [bytes |-> <<>>, len |-> 0, src |-> "none"]
    /\ rx_ret = NoFrame
    /\ rx_prev = [sync |-> FALSE, meta |-> Fill(MetaSize, 0), remaining |-> 0,
                  offset |-> 0, buf |-> <<>>]
    /\ rx_calls = 0
    /\ delivered = <<>>
    /\ Opened

Init == \E c \in Setups, j0 \in JunkBytes :
            Constructed(c.udp, j0) /\ lens = c.lens

Next == Source \/ SetSampleBytes \/ Deliver

\* sender, lossless in-order transport, receiver
Spec == Init /\ [][Next]_vars

InitTx == \E c \in WideSetups, j0 \in JunkBytes :
            Constructed(c.udp, j0) /\ lens = c.lens

NextTx == Write \/ SetSampleBytes

\* the sender alone, with frames beyond the range of the 16 bit fields
SpecTx == InitTx /\ [][NextTx]_vars

\* compression is switched on and off between the frames
Lz4Sizes == {0, 64}
SetLZ4MinInputSize == \E z \in Lz4Sizes : setLZ4MinInputSize(z)

\* three frame lengths are enough to change the sample count and to keep it
InitLz == Constructed(44, 0) /\ lens = {0, LenRest, LenUnit}

NextLz == Write \/ SetLZ4MinInputSize

\* the sender alone, with the LZ4 scratch buffer in use
SpecLz == InitLz /\ [][NextLz]_vars

InitLossy == \E j0 \in JunkBytes : Constructed(44, j0) /\ lens = FrameLens

NextLossy == Source \/ SetSampleBytes \/ Deliver \/ Lose

\* sender and receiver over a transport that keeps the order and may lose
\* any datagram
SpecLossy == InitLossy /\ [][NextLossy]_vars

\* sample encodings: one and two bytes per component, bare and with an
\* indicator bit in the high nibble
Encodings == {1, 2, 17, 18}
SetEncoding == \E b \in Encodings : calls = <<>> /\ setSampleBytes(b)

InitEnc == Constructed(44, 0) /\ lens = FrameLens

NextEnc == Write \/ SetEncoding

\* the sender alone, with indicator bits in the sample encoding
SpecEnc == InitEnc /\ [][NextEnc]_vars

\* the values of the keys of a configuration request
FreqTexts == {<<"3", "0", "0", "0", "0", "0", "0", "0">>, <<"1", "0", "0", "0">>}
RateTexts == {<<"l", "i", "s", "t">>, <<"L", "i", "s", "t">>,
              <<"7", "6", "8", "0", "0", "0">>, <<"3", "8", "4", "0", "0", "0">>,
              <<"1", "2", "3", "4", "5">>, <<"f", "a", "s", "t">>}
Requests == {[freq |-> f] : f \in FreqTexts}
            \cup {[srate |-> r] : r \in RateTexts}
            \cup {[freq |-> f, srate |-> r] : f \in FreqTexts, r \in RateTexts}

Configure == \E m \in Requests, rcFreq \in BOOLEAN, rcRate \in BOOLEAN :
                configure(m, rcFreq, rcRate)

InitDev == Constructed(44, 0) /\ lens = {}

NextDev == Configure

\* the sample source alone, configured again and again
SpecDev == InitDev /\ [][NextDev]_vars

\* requests for a rate the device has not, and for one it has
SrcRequests == {[srate |-> <<"f", "a", "s", "t">>],
                [srate |-> <<"3", "8", "4", "0", "0", "0">>]}

\* the caller configures the source between its calls of start and stop
SrcConfigure == \E m \in SrcRequests, rcRate \in BOOLEAN :
                    /\ src_fault = "none"
                    /\ src_call.pc = "idle"
                    /\ configure(m, TRUE, rcRate)

RunStart == \E k \in 1..Len(threads), rc \in BOOLEAN : run_start(k, rc)
RunPoll == \E k \in 1..Len(threads), m \in SrcRequests, rcRate \in BOOLEAN :
               run_poll(k, m, TRUE, rcRate)
RunExit == \E k \in 1..Len(threads), rc \in BOOLEAN : run_exit(k, rc)

InitSrc == Constructed(44, 0) /\ lens = {}

NextSrc == \/ start
           \/ start_return
           \/ stop
           \/ stop_return
           \/ RunStart
           \/ RunPoll
           \/ RunExit
           \/ set_stop_flag
           \/ device_stops
           \/ SrcConfigure

\* the sample source with its streaming thread
SpecSrc == InitSrc /\ [][NextSrc]_vars

\* the streaming thread is scheduled, the sleep of start ends and join
\* returns once the thread has finished
SpecSrcLive ==
    /\ SpecSrc
    /\ WF_vars(RunStart)
    /\ WF_vars(RunExit)
    /\ WF_vars(start_return)
    /\ WF_vars(stop_return)

StreamOn == \E i \in 1..Len(insts) : stream_on(i)
DestroyClose == \E i \in 1..Len(insts) : destroy_close(i)
DestroyEnd == \E i \in 1..Len(insts) : destroy_end(i)
RxCallbackTest == \E d \in 1..Len(insts) : rx_callback_test(d)
RxCallbackCall == \E via \in 0..Len(insts) : rx_callback_call(via)

InitInst == Constructed(44, 0) /\ lens = {}

NextInst == \/ construct
            \/ StreamOn
            \/ DestroyClose
            \/ DestroyEnd
            \/ RxCallbackTest
            \/ RxCallbackCall

\* source instances come and go while their devices call back
SpecInst == InitInst /\ [][NextInst]_vars

---------------------------------------------------------------------------
(* The receiver driven directly: any datagram may arrive from the network *)

\* a header as the protocol describes it: blockCount counts the payload
\* datagrams of the frame
ConformantMeta(buf, udp, sb, n, sec, usec) ==
    LET spb == samplesPerBlock(udp, sb)
        fields == PutLE(MetaFields(buf, udp, sb, n, spb, sec, usec), OffNbBlocks, 2,
                        (n \div spb) + (IF n % spb > 0 THEN 1 ELSE 0))
    IN  PutLE(fields, OffCrc, 8, calculate_crc(fields, MetaSize - 8))

Datagram(bytes, len) == [bytes |-> bytes, len |-> len, src |-> "network"]

RxInputs(udp, j0) ==
    LET blank == Fill(udp, j0)
        h1 == WriteMeta(blank, udp, 2, 2 * LenUnit + LenRest, samplesPerBlock(udp, 2),
                        TvSec0, TvUsec0)
        h2 == ConformantMeta(blank, udp, 2, 2 * LenUnit, TvSec0, TvUsec0)
        h3 == ConformantMeta(blank, udp, 2, 2 * LenUnit + LenRest, TvSec0 + 1, TvUsec0)
        p1 == [j \in 1..udp |-> 1 + (j % SamplePeriod)]
        p2 == [j \in 1..udp |-> 1 + ((SeedStep + j) % SamplePeriod)]
    IN  {Datagram(h1, udp), Datagram(h2, udp), Datagram(h3, udp),
         Datagram(p1, udp), Datagram(p2, udp),
         Datagram(h2 \o <<j0, j0>>, udp + 2),
         Datagram(Slice(p1, 0, udp - 2), udp - 2)}

Accept == \E d \in RxInputs(rx_blockSize, junk) :
            /\ rx_calls < MaxAccepts
            /\ accept(d)
            /\ UNCHANGED <<txvars, envvars, chan, calls, pristine, devvars, srcvars, instvars>>

InitRx == \E j0 \in JunkBytes : Constructed(44, j0) /\ lens = {}

NextRx == Accept

\* the receiver alone, fed headers and payload in any order
SpecRx == InitRx /\ [][NextRx]_vars

\* a header with a valid checksum whose fields need not agree with each other
ForgedMeta(buf, udp, sb, n, blocks, rest, whole) ==
    LET b1 == MetaFields(buf, udp, sb, n, samplesPerBlock(udp, sb), TvSec0, TvUsec0)
        b2 == PutLE(b1, OffNbBlocks, 2, blocks)
        b3 == PutLE(b2, OffRemainderSamples, 2, rest)
        fields == PutLE(b3, OffNbCompleteBlocks, 2, whole)
    IN  PutLE(fields, OffCrc, 8, calculate_crc(fields, MetaSize - 8))

\* datagrams of a sender that does not keep to the protocol: a header that
\* announces LenRest samples in two blocks and no remainder, a header that
\* announces more remainder samples than the frame has, a conformant header,
\* payload
HostileInputs(udp, j0) ==
    LET blank == Fill(udp, j0)
        hx == ForgedMeta(blank, udp, 2, LenRest, 2, 0, 0)
        hy == ForgedMeta(blank, udp, 2, LenRest, 1, LenUnit, 0)
        h2 == ConformantMeta(blank, udp, 2, 2 * LenUnit, TvSec0, TvUsec0)
        p1 == [j \in 1..udp |-> 1 + (j % SamplePeriod)]
        p2 == [j \in 1..udp |-> 1 + ((SeedStep + j) % SamplePeriod)]
    IN  {Datagram(hx, udp), Datagram(hy, udp), Datagram(h2, udp),
         Datagram(p1, udp), Datagram(p2, udp)}

AcceptHostile == \E d \in HostileInputs(rx_blockSize, junk) :
            /\ rx_calls < MaxAccepts
            /\ accept(d)
            /\ UNCHANGED <<txvars, envvars, chan, calls, pristine, devvars, srcvars, instvars>>

NextHostile == AcceptHostile

\* the receiver alone, fed by a sender that forges headers
SpecHostile == InitRx /\ [][NextHostile]_vars

---------------------------------------------------------------------------
(* Properties *)

CallHeader(c) == c.out[1].bytes
SpecSamplesPerBlock(c) == c.udp \div (2 * (c.sb % 16))
PayloadCount(h) == F_nbCompleteBlocks(h) + (IF F_remainderSamples(h) > 0 THEN 1 ELSE 0)

\* C1: with no loss and no duplication, once the datagrams of the written
\* (non-empty) batches have all been accepted, the receiver has returned one
\* frame per batch and each frame is byte for byte the batch that was sent.
C1_RoundTrip ==
    (chan = <<>> /\ pristine /\ \A k \in 1..Len(calls) : calls[k].batch.n > 0)
        => /\ Len(delivered) = Len(calls)
           /\ \A k \in 1..Len(calls) :
                  delivered[k] = BatchBytes(calls[k].batch, calls[k].ss)

\* C2: every write call emits its header datagram first, and no other datagram
\* of the call is a header: one header per frame, ahead of all its payload.
C2_HeaderFirst ==
    \A k \in 1..Len(calls) :
        LET out == calls[k].out
        IN  /\ Len(out) >= 1
            /\ out[1].src = "m_bufMeta"
            /\ ValidHeader(out[1].bytes)
            /\ \A i \in 2..Len(out) :
                   out[i].src # "m_bufMeta" /\ ~ValidHeader(out[i].bytes)

C2_Witness ==
    \E k \in 1..Len(calls) :
        /\ Len(calls[k].out) >= 3
        /\ calls[k].out[2].src = "samples_in"
        /\ calls[k].out[Len(calls[k].out)].src = "m_buf"

\* C3: the blockCount field of every emitted header equals
\* completeBlockCount + (remainderSamples > 0 ? 1 : 0); stated for the frames
\* that carry samples.
C3_BlockCount ==
    \A k \in 1..Len(calls) :
        calls[k].batch.n > 0 =>
            F_nbBlocks(CallHeader(calls[k])) = PayloadCount(CallHeader(calls[k]))

\* C4: the fields of every emitted header satisfy frameSampleCount =
\* completeBlockCount * samplesPerBlock + remainderSamples, with
\* samplesPerBlock = datagramSize / (2 * bytesPerComponent), whatever the
\* frame length.
C4_SampleCountIdentity ==
    \A k \in 1..Len(calls) :
        LET h == CallHeader(calls[k])
        IN  F_nbSamples(h) =
                F_nbCompleteBlocks(h) * (F_blockSize(h) \div (2 * BytesPerComponent(h)))
                + F_remainderSamples(h)

\* C5: for a frame of N samples the header carries completeBlockCount =
\* N div samplesPerBlock and remainderSamples = N mod samplesPerBlock, and the
\* call emits 1 + completeBlockCount + (remainderSamples > 0 ? 1 : 0) datagrams.
C5_DatagramCount ==
    \A k \in 1..Len(calls) :
        LET c == calls[k]
            h == CallHeader(c)
            spb == SpecSamplesPerBlock(c)
        IN  /\ F_nbCompleteBlocks(h) = c.batch.n \div spb
            /\ F_remainderSamples(h) = c.batch.n % spb
            /\ Len(c.out) = 1 + (c.batch.n \div spb)
                              + (IF c.batch.n % spb > 0 THEN 1 ELSE 0)

\* C6: every datagram handed to the transport, header, complete block or
\* remainder, is sent with a length of exactly datagramSize bytes.
C6_DatagramSize ==
    \A k \in 1..Len(calls) :
        \A i \in 1..Len(calls[k].out) :
            /\ calls[k].out[i].len = calls[k].udp
            /\ Len(calls[k].out[i].bytes) = calls[k].out[i].len

C6_Witness ==
    \E k \in 1..Len(calls) :
        /\ Len(calls[k].out) >= 3
        /\ calls[k].out[Len(calls[k].out)].src = "m_buf"
        /\ F_remainderSamples(CallHeader(calls[k])) * calls[k].ss < calls[k].udp

\* C7: the checksum field of every emitted header is the checksum of the 34
\* bytes before it as they are sent (all fields of this frame, timestamp
\* included), and the receiver takes every delivered header datagram for a
\* header.
C7_HeaderChecksum ==
    /\ \A k \in 1..Len(calls) :
           LET c == calls[k]
               h == CallHeader(c)
           IN  /\ F_crc(h) = LE(calculate_crc(h, MetaSize - 8), 8)
               /\ F_nbSamples(h) = c.batch.n
               /\ F_sampleBytes(h) = c.sb
               /\ F_tv_sec(h) = TvSec0 + k - 1
               /\ F_tv_usec(h) = TvUsec0
    /\ (rx_calls > 0 /\ rx_in.src = "m_bufMeta")
           => /\ rx_sync
              /\ rx_currentMeta = Head42(rx_in.bytes)
              /\ rx_ret = NoFrame

C7_Witness ==
    /\ Len(calls) = 2
    /\ rx_calls > 0
    /\ rx_in.src = "m_bufMeta"
    /\ rx_in.bytes = CallHeader(calls[2])
    /\ F_tv_sec(rx_in.bytes) # F_tv_sec(CallHeader(calls[1]))

RightSized(d) == d.len = rx_blockSize
IsHeaderIn(d) == RightSized(d) /\ ValidHeader(d.bytes)
IsPayloadIn(d) == RightSized(d) /\ ~ValidHeader(d.bytes)

\* C8: in any receiver state, accepting a datagram that validates as a header
\* drops the reconstruction in progress, adopts the header, sets
\* blocks_remaining = blockCount and next_offset = 0, leaves the receiver
\* COLLECTING and returns no frame.
C8_HeaderAlwaysWins ==
    (rx_calls > 0 /\ IsHeaderIn(rx_in))
        => /\ rx_sync
           /\ rx_currentMeta = Head42(rx_in.bytes)
           /\ rx_blocksRemaining = F_nbBlocks(rx_in.bytes)
           /\ rx_nextOffset = 0
           /\ rx_buf = Fill(FrameBytes(rx_in.bytes), junk)
           /\ rx_ret = NoFrame

C8_Witness ==
    /\ rx_calls > 0
    /\ IsHeaderIn(rx_in)
    /\ rx_prev.sync
    /\ rx_prev.offset > 0
    /\ rx_prev.remaining > 0
    /\ rx_prev.meta # Head42(rx_in.bytes)

\* C9: the receiver starts in AWAITING_HEADER, and a datagram that fails the
\* header test while the receiver is in AWAITING_HEADER changes nothing:
\* state, header and buffer stay as they were and no frame is returned.
C9_DiscardBeforeSync ==
    /\ rx_calls = 0 => ~rx_sync
    /\ (rx_calls > 0 /\ ~rx_prev.sync /\ IsPayloadIn(rx_in))
           => /\ ~rx_sync
              /\ rx_currentMeta = rx_prev.meta
              /\ rx_buf = rx_prev.buf
              /\ rx_ret = NoFrame

C9_Witness ==
    /\ rx_calls > 0
    /\ ~rx_prev.sync
    /\ IsPayloadIn(rx_in)
    /\ delivered = <<>>

\* C10: in COLLECTING a payload datagram counts blocks_remaining down by one
\* and moves next_offset on by one block; a frame is returned exactly in the
\* call that brings blocks_remaining to zero, it is frameSampleCount samples
\* long, and the receiver is then in AWAITING_HEADER, where payload datagrams
\* return no frame.
C10_CollectAndComplete ==
    /\ (rx_calls > 0 /\ rx_prev.sync /\ IsPayloadIn(rx_in))
           => LET last == rx_prev.remaining - 1 = 0
              IN  /\ (rx_ret # NoFrame) <=> last
                  /\ last => /\ ~rx_sync
                             /\ Len(rx_ret) = FrameBytes(rx_prev.meta)
                  /\ ~last => /\ rx_sync
                              /\ rx_blocksRemaining = rx_prev.remaining - 1
                              /\ rx_nextOffset = rx_prev.offset
                                    + RxSamplesPerBlock(rx_prev.meta)
                                        * BytesPerSample(rx_prev.meta)
    /\ (rx_calls > 0 /\ ~rx_prev.sync /\ IsPayloadIn(rx_in))
           => rx_ret = NoFrame /\ ~rx_sync

C10_Witness ==
    /\ rx_calls > 0
    /\ rx_prev.sync
    /\ rx_prev.offset > 0
    /\ IsPayloadIn(rx_in)
    /\ rx_ret # NoFrame
    /\ F_remainderSamples(rx_prev.meta) > 0

---------------------------------------------------------------------------
(* Loss and duplication *)

\* the number of datagrams the write calls before the k-th handed over
RECURSIVE EmittedBefore(_)
EmittedBefore(k) ==
    IF k = 1 THEN 0 ELSE EmittedBefore(k - 1) + Len(calls[k - 1].out)

\* where the log tells what became of the datagrams of the k-th write call;
\* the transport keeps the order, so the log follows the order of emission
Segment(k) ==
    {j \in 1..Len(log) :
        EmittedBefore(k) < j /\ j <= EmittedBefore(k) + Len(calls[k].out)}
PayloadOf(k) == {j \in Segment(k) : j > EmittedBefore(k) + 1}
LostOf(k) == {j \in Segment(k) : log[j].fate = "lost"}
Arrived(k) == Cardinality(Segment(k)) = Len(calls[k].out)

\* C11: when frame F loses some but not all of its payload datagrams, its
\* header and every datagram of the next frame F' being delivered, then once
\* all of them have arrived no frame was returned for F and F' was returned
\* equal to the batch that was sent.
C11_ResyncAfterLoss ==
    \A k \in 1..(Len(calls) - 1) :
        ( /\ Arrived(k) /\ Arrived(k + 1)
          /\ LostOf(k) # {}
          /\ LostOf(k) \subseteq PayloadOf(k)
          /\ LostOf(k) # PayloadOf(k)
          /\ LostOf(k + 1) = {}
          /\ calls[k + 1].batch.n > 0 )
        => /\ \A j \in Segment(k) : log[j].ret = NoFrame
           /\ \E j \in Segment(k + 1) :
                  log[j].ret = BatchBytes(calls[k + 1].batch, calls[k + 1].ss)
           /\ \A j \in Segment(k + 1) :
                  log[j].ret \in {NoFrame,
                                  BatchBytes(calls[k + 1].batch, calls[k + 1].ss)}

\* the log positions of the payload datagrams accepted under the header in
\* force when the last datagram was accepted, that datagram included
SeenSinceHeader ==
    {j \in 1..Len(log) :
        /\ log[j].fate = "accepted"
        /\ SizeOk(log[j].d.len, rx_blockSize)
        /\ \A i \in j..Len(log) :
               ~(log[i].fate = "accepted"
                 /\ SizeOk(log[i].d.len, rx_blockSize)
                 /\ ValidHeader(log[i].d.bytes))}

\* C12 as claimed: a frame whose header counts its payload datagrams is
\* returned only once as many distinct payload datagrams as the header counts
\* have been accepted, and it is frameSampleCount samples long.
C12_NoDoubleCount ==
    (rx_calls > 0 /\ rx_ret # NoFrame
     /\ F_nbBlocks(rx_prev.meta) = F_nbCompleteBlocks(rx_prev.meta)
            + (IF F_remainderSamples(rx_prev.meta) > 0 THEN 1 ELSE 0))
        => /\ Cardinality({log[j].d : j \in SeenSinceHeader})
                  >= F_nbBlocks(rx_prev.meta)
           /\ Len(rx_ret) = FrameBytes(rx_prev.meta)

\* C12: every payload datagram accepted while COLLECTING counts as one block,
\* a repeated one included: a frame is returned in the call that accepts the
\* blockCount-th payload datagram since the header, however many of them are
\* distinct, and it is frameSampleCount samples long.
C12_CountsEveryOccurrence ==
    (rx_calls > 0 /\ rx_ret # NoFrame)
        => /\ Cardinality(SeenSinceHeader) = F_nbBlocks(rx_prev.meta)
           /\ Len(rx_ret) = FrameBytes(rx_prev.meta)

C12_Witness ==
    /\ rx_calls > 0
    /\ rx_ret # NoFrame
    /\ F_nbBlocks(rx_prev.meta) >= 2
    /\ \E i, j \in SeenSinceHeader : i # j /\ log[i].d = log[j].d

\* C13: with every header delivered, once a payload datagram of a frame is
\* lost no frame is returned before the next header: what is left of the
\* frame is dropped, never handed out short or shifted.
C13_LossDropsFrame ==
    (\A j \in 1..Len(log) : log[j].fate = "lost" => log[j].d.src # "m_bufMeta")
        => \A k \in 1..Len(calls) :
               \A j \in Segment(k) :
                   (\E i \in PayloadOf(k) : i < j /\ log[i].fate = "lost")
                       => log[j].ret = NoFrame

---------------------------------------------------------------------------
(* Datagrams of the wrong size, and the tail of the remainder datagram *)

\* C14: a datagram whose length is not the configured datagram size changes
\* nothing, whatever its bytes are: sync state, header, blocks_remaining,
\* next_offset and buffer stay as they were and no frame is returned.
C14_WrongSizeDropped ==
    (rx_calls > 0 /\ rx_in.len # rx_blockSize)
        => /\ rx_sync = rx_prev.sync
           /\ rx_currentMeta = rx_prev.meta
           /\ rx_blocksRemaining = rx_prev.remaining
           /\ rx_nextOffset = rx_prev.offset
           /\ rx_buf = rx_prev.buf
           /\ rx_ret = NoFrame

C14_Witness ==
    /\ rx_calls > 0
    /\ rx_in.len > rx_blockSize
    /\ ValidHeader(rx_in.bytes)
    /\ rx_prev.sync
    /\ rx_prev.offset > 0
    /\ rx_prev.meta # Head42(rx_in.bytes)

\* values the unused tail of a remainder datagram may hold
TailBytes == {0, 170, 255}

\* the datagram d with every byte after the first `used` set to t
Retail(d, used, t) ==
    [d EXCEPT !.bytes = [j \in 1..Len(d.bytes) |->
                            IF j > used THEN t ELSE d.bytes[j]]]

\* the write call that emitted the datagram at position j of the log
CallOf(j) == CHOOSE k \in 1..Len(calls) : j \in Segment(k)

\* C15: the receiver's answer to a remainder datagram is the answer it gives
\* to the same datagram with any other bytes after the first remainderSamples
\* samples of its frame: the same frame is returned (or none), and the same
\* state and buffer are left.
C15_PaddingIndependence ==
    (/\ log # <<>>
     /\ log[Len(log)].fate = "accepted"
     /\ rx_in.src = "m_buf"
     /\ fault = "none")
        => \A t \in TailBytes :
               LET h == CallHeader(calls[CallOf(Len(log))])
                   used == F_remainderSamples(h) * BytesPerSample(h)
                   r == writeAndRead(rx_prev, Retail(rx_in, used, t),
                                     rx_blockSize, junk)
               IN  /\ r.ret = rx_ret
                   /\ r.st.sync = rx_sync
                   /\ r.st.remaining = rx_blocksRemaining
                   /\ r.st.offset = rx_nextOffset
                   /\ rx_ret = NoFrame => r.st.buf = rx_buf

---------------------------------------------------------------------------
(* The payload datagrams and the scratch buffer of the sender *)

\* C16: the remainder datagram of every write call holds the remaining samples
\* and then only zero bytes up to the datagram size; stated for the runs in
\* which memory that was never written happens to read as zero.
C16_ZeroPadded ==
    junk = 0 =>
        \A k \in 1..Len(calls) :
            LET c == calls[k]
                h == CallHeader(c)
                last == c.out[Len(c.out)]
                used == F_remainderSamples(h) * c.ss
            IN  F_remainderSamples(h) > 0 =>
                    /\ last.src = "m_buf"
                    /\ \A j \in (used + 1)..c.udp : last.bytes[j] = 0

\* C17: the i-th complete block datagram of a call (i from 0) is the
\* (i + 2)-th datagram of the call and holds the samples i * samplesPerBlock
\* to (i + 1) * samplesPerBlock - 1 of the batch, the remainder datagram holds
\* the samples after the complete blocks, and together the payload datagrams
\* carry every sample of the batch once.
C17_BlocksInOrder ==
    \A k \in 1..Len(calls) :
        LET c == calls[k]
            h == CallHeader(c)
            spb == SpecSamplesPerBlock(c)
            nblocks == F_nbCompleteBlocks(h)
            last == c.out[Len(c.out)]
            rest == IF last.src = "m_buf" THEN F_remainderSamples(h) ELSE 0
        IN  /\ \A i \in 0..(nblocks - 1) :
                   /\ c.out[i + 2].src = "samples_in"
                   /\ \A j \in 1..(spb * c.ss) :
                          c.out[i + 2].bytes[j]
                              = SampleMem(c.batch, c.ss, i * spb * c.ss + j - 1, junk)
            /\ \A j \in 1..(rest * c.ss) :
                   last.bytes[j]
                       = SampleMem(c.batch, c.ss, nblocks * spb * c.ss + j - 1, junk)
            /\ Len(c.out) = 1 + nblocks + (IF rest > 0 THEN 1 ELSE 0)
            /\ nblocks * spb + rest = c.batch.n

\* C18: the remembered sample count is that of the previous write call, and a
\* write call whose batch has that many samples leaves the pointer and the
\* size of the scratch buffer and the remembered count as they were.
C18_ResizeOnlyOnChange ==
    \A k \in 1..Len(calls) :
        LET c == calls[k]
        IN  /\ k > 1 => c.nb0 = calls[k - 1].batch.n
            /\ c.batch.n = c.nb0 => c.lz1 = c.lz0 /\ c.nb1 = c.nb0
            /\ c.lz1 # c.lz0 => c.batch.n # c.nb0

C18_Witness ==
    /\ Len(calls) >= 2
    /\ calls[1].lz1 # calls[1].lz0
    /\ calls[2].batch.n = calls[1].batch.n
    /\ calls[2].lz0.buf # 0
    /\ calls[2].lz0.size > 0
    /\ m_lz4MinInputSize > 0

---------------------------------------------------------------------------
(* The sample rate reported by the source, and hostile datagram sequences *)

\* C19: after any sequence of configure calls, whatever their outcome,
\* get_sample_rate returns the sample rate the device runs at: the last rate
\* applied with success, or the default.
C19_SampleRateCurrent == get_sample_rate = dev_samplerate

\* C20: the reassembler never fails: no copy runs past the reconstruction
\* buffer, and while COLLECTING 0 < blocks_remaining <= blockCount.
C20_NeverFails ==
    /\ fault \notin {"rx_oob", "rx_crash"}
    /\ rx_sync => /\ rx_blocksRemaining > 0
                  /\ rx_blocksRemaining <= F_nbBlocks(rx_currentMeta)

---------------------------------------------------------------------------
(* The block split, frames across a lost header, the scratch buffer *)

\* C21: the header of every write call splits the frame by the number of
\* samples a datagram holds at the bytes per component of the low nibble of
\* the sample encoding, whatever the high nibble holds.
C21_SplitByLowNibble ==
    \A k \in 1..Len(calls) :
        LET c == calls[k]
            h == CallHeader(c)
            spb == SpecSamplesPerBlock(c)
        IN  /\ F_nbCompleteBlocks(h) = (c.batch.n \div spb) % U16
            /\ F_remainderSamples(h) = (c.batch.n % spb) % U16

\* whether the receiver took the datagram at position j of the log for a header
HeaderAt(j) ==
    /\ log[j].fate = "accepted"
    /\ SizeOk(log[j].d.len, rx_blockSize)
    /\ ValidHeader(log[j].d.bytes)

\* the position of the header the receiver held when it was handed the
\* datagram at position j of the log, 0 when it held none
HeaderInForce(j) ==
    LET before == {i \in 1..(j - 1) : HeaderAt(i)}
    IN  IF before = {} THEN 0
        ELSE CHOOSE i \in before : \A i2 \in before : i2 <= i

\* the payload datagrams accepted after the header at position hp, up to
\* position j
AcceptedSince(hp, j) ==
    {i \in (hp + 1)..j : log[i].fate = "accepted"
                           /\ SizeOk(log[i].d.len, rx_blockSize)}

\* C22: under a header that announces as many blocks as its frame has payload
\* datagrams, a payload datagram that the receiver counts towards the frame
\* was emitted by the write call that emitted the header, and a frame that is
\* returned is the batch of that write call.
C22_FramesNeverMixed ==
    \A j \in 1..Len(log) :
        LET hp == HeaderInForce(j)
        IN  ( /\ hp > 0
              /\ ~HeaderAt(j)
              /\ j \in AcceptedSince(hp, j)
              /\ PayloadCount(log[hp].d.bytes) = F_nbBlocks(log[hp].d.bytes)
              /\ Cardinality(AcceptedSince(hp, j)) <= F_nbBlocks(log[hp].d.bytes) )
            => /\ CallOf(j) = CallOf(hp)
               /\ log[j].ret # NoFrame
                      => log[j].ret = BatchBytes(calls[CallOf(hp)].batch,
                                                 calls[CallOf(hp)].ss)

\* the calls of accept that returned a frame, and those that took a header
FramesReturned == {j \in 1..Len(log) : log[j].ret # NoFrame}
HeadersAccepted == {j \in 1..Len(log) : HeaderAt(j)}

\* C23: no more frames were returned than valid headers were accepted, a
\* valid header was accepted ahead of the first frame returned and between
\* any two frames returned.
C23_OneFramePerHeader ==
    /\ Cardinality(FramesReturned) <= Cardinality(HeadersAccepted)
    /\ \A j \in FramesReturned :
           /\ \E h \in HeadersAccepted : h < j
           /\ \A i \in FramesReturned :
                  i < j => \E h \in HeadersAccepted : i < h /\ h < j

C23_Witness ==
    /\ Cardinality(FramesReturned) >= 2
    /\ Cardinality(HeadersAccepted) = Cardinality(FramesReturned)

\* C24: no call releases the LZ4 scratch buffer a second time, and the
\* pointer is null unless it points to a buffer that is allocated.
C24_ReleasedOnce ==
    /\ fault # "tx_double_free"
    /\ \A p \in 1..Len(heap) : heap[p] # "freed_twice"
    /\ m_lz4Buffer # 0 => heap[m_lz4Buffer] = "live"

\* C25: no write call divides or takes a remainder by zero.
C25_NoDivisionByZero == fault # "tx_div0"

---------------------------------------------------------------------------
(* The streaming thread of the sample source *)

\* the thread objects whose thread has not finished
Running == {k \in 1..Len(threads) : threads[k].pc # "done"}

\* C26: at most one streaming thread runs at a time, and a call of start
\* that finds a thread already started launches none, records the error
\* "Source thread already started" and returns false.
C26_OneThread ==
    /\ Cardinality(Running) <= 1
    /\ (src_call.op = "start" /\ src_call.before # 0)
           => /\ ~src_call.launched
              /\ src_call.pc = "idle"
              /\ src_call.error = ThreadAlreadyStarted
              /\ ~src_call.ret

C26_Witness ==
    /\ src_call.op = "start"
    /\ src_call.before # 0
    /\ threads[src_call.before].pc = "loop"
    /\ Len(threads) = 1

\* the thread that m_thread points to polls with the loop condition false
LoopShouldEnd ==
    /\ m_thread # 0
    /\ threads[m_thread].pc = "loop"
    /\ (stop_flag \/ ~dev_streaming)

\* the thread that m_thread points to has left the loop, called
\* airspyhf_stop once, and has finished
ThreadEnded ==
    /\ m_thread # 0
    /\ threads[m_thread].pc = "done"
    /\ threads[m_thread].stops = 1

\* C27: once the stop flag is set or the device has stopped streaming, the
\* polling loop ends, airspyhf_stop is called once and the thread finishes,
\* and a call of stop that waits for the thread returns true.
C27_StopEndsThread ==
    /\ LoopShouldEnd ~> ThreadEnded
    /\ (LoopShouldEnd /\ src_call.pc = "joining")
           ~> (ThreadEnded /\ src_call.op = "stop" /\ src_call.pc = "idle"
               /\ src_call.ret)

C27_Witness ==
    /\ ThreadEnded
    /\ stop_flag
    /\ src_call.op = "stop"
    /\ src_call.pc = "idle"
    /\ src_call.ret
    /\ threads[m_thread].obj = "deleted"

\* C28: stop never calls join through a null pointer and never joins or
\* deletes a thread object that was deleted.
C28_StopIsSafe ==
    /\ src_fault = "none"
    /\ \A k \in 1..Len(threads) : threads[k].obj # "deleted_twice"

\* C29: a call of start that finds the thread of the previous start joined
\* and deleted by a completed stop launches a new thread and does not
\* record "Source thread already started".
C29_RestartAfterStop ==
    ( /\ src_call.op = "start"
      /\ src_call.before # 0
      /\ threads[src_call.before].obj # "live" )
        => /\ src_call.launched
           /\ src_call.error # ThreadAlreadyStarted

\* C30: a call of start that has returned has returned true exactly when it
\* launched the streaming thread.
C30_TrueIffLaunched ==
    (src_call.op = "start" /\ src_call.pc = "idle")
        => (src_call.ret <=> src_call.launched)

---------------------------------------------------------------------------
(* Rejected configuration requests *)

\* the request names a frequency outside the range of the device, asks for
\* the list of sample rates, or names a sample rate the device has not
FailsValidation(m) ==
    \/ /\ "freq" \in DOMAIN m
       /\ (atoi(m["freq"]) < MinFrequency \/ atoi(m["freq"]) > MaxFrequency)
    \/ /\ "srate" \in DOMAIN m
       /\ \/ SameNoCase(m["srate"], <<"l", "i", "s", "t">>)
          \/ RateIndex(atoi(m["srate"])) = Len(m_srates) + 1

\* C32: a configure call whose request fails validation returns false with
\* an error message recorded, has sent nothing to the device, and leaves the
\* configured frequency and the sample rate of the source as they were.
C32_RejectLeavesConfig ==
    FailsValidation(cfg_in)
        => /\ ~cfg_ret
           /\ m_error # ""
           /\ dev_freq = cfg_prev.dev_freq
           /\ dev_samplerate = cfg_prev.dev_samplerate
           /\ m_confFreq = cfg_prev.confFreq
           /\ m_frequency = cfg_prev.frequency
           /\ m_sampleRate = cfg_prev.sampleRate

---------------------------------------------------------------------------
(* The hardware callback *)

\* C31: every hardware callback of a device pushes its samples through the
\* source that owns the device, while that source is alive; none goes
\* through a null pointer or a destroyed source, none reaches another
\* source, and none is dropped while the owner is alive.
C31_CallbackReachesOwner ==
    \A j \in 1..Len(pushes) :
        LET e == pushes[j]
        IN  /\ e.kind \notin {"null_deref", "use_after_destroy"}
            /\ e.kind = "pushed" => e.via = e.dev /\ e.target = "live"
            /\ e.kind = "dropped" => e.owner # "live"

===========================================================================
